---- MODULE Spec2Model ----
(***************************************************************************)
(* ARCCS: compliance classification (CCM.py), regulation deduplication     *)
(* (merge_regulations.py), quality scoring and filtering (RPEM.py,         *)
(* filter_regulations_funcs.py), sectioning and extraction (RPEM.py) and   *)
(* the history file (app.py), modelled as state machines over JSON-shaped  *)
(* values.  The language-model oracle is an external collaborator: each    *)
(* of its replies is a nondeterministic input.                             *)
(***************************************************************************)
EXTENDS Integers, Sequences, FiniteSets, TLC

VARIABLES
    regulation,     \* check_regulation_compliance: the `regulation` argument
    response,       \* what the oracle call produced for that call
    result,         \* the dict check_regulation_compliance returned
    call_pc,        \* "call" before the call, "returned" after it
    regulations,    \* check_all_regulations: the `regulations` argument
    verbose,        \* check_all_regulations: the `verbose` argument
    replies,        \* the oracle outcomes of the calls made so far, in call order
    results,        \* check_all_regulations: the `results` list
    pc,             \* "checking", "done" (returned), "raised", "reported"
    report,         \* generate_compliance_report(results)
    entry,          \* "merge": merge_duplicate_regulations called directly;
                    \* "deduplicate": through deduplicate_regulations
    records,        \* merge_duplicate_regulations: the `regulations` argument
    batch_size,     \* merge_duplicate_regulations: the `batch_size` argument
    batch_start,    \* the loop variable of the batch loop
    oracle_log,     \* per processed batch: its start and the oracle's raw reply
    all_deletions,  \* the pairs collected so far, indices adjusted
    merge_pc,       \* "batches", "done" (returned), "raised"
    cleaned_regulations,
    deletion_log,
    summary,        \* deduplicate_regulations: result["summary"]
    oracle_pairs,   \* the deterministic oracle: the <<a, b>> it reports as
                    \* "a duplicates b" whenever it is shown both records
    run,            \* the number of the current merge run over the same data
    scorer,         \* "RPEM": RPEM.calculate_quality_score / filter_regulations_by_quality;
                    \* "filter_funcs": the functions of filter_regulations_funcs
    record,         \* the `regulation` argument of the scoring function
    quality,        \* the assessment it returned
    previous,       \* the assessment of the record before a blank was filled in
    populated,      \* a blank of the record has been filled in
    score_pc,       \* "input", "scored"
    reg_list,       \* the `regulations` argument of the filter function
    min_score,      \* its `min_score` argument
    kept,           \* the three lists of the filter function; a member is a
    review,         \* record with the assessment attached as "_quality_score"
    discarded,
    filter_pc,      \* "filtering", "done" (returned)
    attached,       \* per record of reg_list: what reg["_quality_score"] holds
    filter_run,     \* the number of the current run of the filter over reg_list
    first_result,   \* the three lists the first run returned
    history,        \* app.py: the ids of the entries of the history file, newest first
    deletes,        \* delete_history_item calls so far
    clears,         \* clear_history calls so far
    markdown_text,  \* RPEM.split_into_sections: its argument, a sequence of characters
    sections,       \* the list it returns
    split_pc,       \* "input", "done" (returned)
    doc_sections,   \* RPEM.process_all_sections: its argument `sections`
    rpem_verbose,   \* its argument `verbose`
    oracle_replies, \* what the oracle answered for each section so far
    analysis_results, \* its list `results`, then the argument of collect_all_regulations
    all_regulations,  \* the list collect_all_regulations returns
    extract_pc      \* "processing", "returned", "raised", "collected"

ccmVars == <<regulation, response, result, call_pc>>
allVars == <<regulations, verbose, replies, results, pc, report>>
rerunVars == <<oracle_pairs, run>>
refilterVars == <<attached, filter_run, first_result>>
historyVars == <<history, deletes, clears>>
splitVars == <<markdown_text, sections, split_pc>>
extractVars == <<doc_sections, rpem_verbose, oracle_replies, analysis_results,
                 all_regulations, extract_pc>>
restVars == <<historyVars, splitVars, extractVars>>
scoreVars == <<scorer, record, quality, previous, populated, score_pc,
               reg_list, min_score, kept, review, discarded, filter_pc,
               refilterVars>>
mergeVars == <<entry, records, batch_size, batch_start, oracle_log, all_deletions,
               merge_pc, cleaned_regulations, deletion_log, summary, rerunVars>>
vars == <<regulation, response, result, call_pc,
          regulations, verbose, replies, results, pc, report,
          entry, records, batch_size, batch_start, oracle_log, all_deletions,
          merge_pc, cleaned_regulations, deletion_log, summary,
          oracle_pairs, run,
          scorer, record, quality, previous, populated, score_pc,
          reg_list, min_score, kept, review, discarded, filter_pc,
          attached, filter_run, first_result, restVars>>

----------------------------------------------------------------------------
(* JSON values as the Python side sees them after json.loads.  t is the    *)
(* type; v is the truth value of a bool (1/0), a number in hundredths, the *)
(* code of a string (0 is the empty string) or the key count of an object. *)

JBool(b) == [t |-> "bool", v |-> IF b THEN 1 ELSE 0]
JNum(n)  == [t |-> "num", v |-> n]
JStr(c)  == [t |-> "str", v |-> c]
JObj(k)  == [t |-> "obj", v |-> k]
JNull    == [t |-> "null", v |-> 0]
Absent   == [t |-> "absent", v |-> 0]

\* dict.get(key, default)
Get(val, default) == IF val = Absent THEN default ELSE val

\* Python `x == True` / `x == False`: bool is a subclass of int, so 1 == True.
PyEqTrue(x)  == \/ (x.t = "bool" /\ x.v = 1)
                \/ (x.t = "num" /\ x.v = 100)
PyEqFalse(x) == \/ (x.t = "bool" /\ x.v = 0)
                \/ (x.t = "num" /\ x.v = 0)

\* Python `x < y` against a float is defined for numbers and bools only.
PyOrdered(x) == x.t \in {"bool", "num"}
PyHundredths(x) == IF x.t = "bool" THEN 100 * x.v ELSE x.v

\* Python truthiness, and whether `x[:n]` is defined.
Truthy(x) == x.t \notin {"absent", "null"} /\ x.v # 0
Sliceable(x) == x.t = "str"

\* String codes of the literals of CCM.py; positive codes are other texts.
StrUnknown == JStr(-1)      \* 'Unknown'
StrNA      == JStr(-2)      \* 'N/A'

ConfidenceThreshold == 70   \* 0.7, in hundredths
DefaultConfidence   == 50   \* 0.5, in hundredths

Statuses == {"COMPLIANT", "NON_COMPLIANT", "INSUFFICIENT_INFORMATION", "HUMAN_REQUIRED"}

----------------------------------------------------------------------------
(* Oracle outcomes of one chat.completions.create call.                    *)
(*   kind "raise"       the call raises (network, rate limit)              *)
(*   kind "unparseable" json.loads raises on the content                   *)
(*   kind "nonobject"   the content parses, but not as a JSON object       *)
(*   kind "object"      the content parses as a JSON object with the       *)
(*                      fields below (Absent: the key is missing)          *)

Outcome(kind, rid, rname, cf, hi, conf, status, details, missing) ==
    [kind |-> kind, regulation_id |-> rid, regulation_name |-> rname,
     contradiction_found |-> cf, has_relevant_information |-> hi,
     confidence_score |-> conf, compliance_status |-> status,
     contradiction_details |-> details, missing_information |-> missing]

Failure(kind) ==
    Outcome(kind, Absent, Absent, Absent, Absent, Absent, "ABSENT", Absent, Absent)

FailureKinds == {"raise", "unparseable", "nonobject"}

ContradictionValues == {JBool(TRUE), JBool(FALSE), Absent, JNum(100), JStr(1)}
HasInfoValues       == {JBool(TRUE), JBool(FALSE), Absent, JNull}
ConfidenceValues    == {Absent, JNull, JStr(1), JNum(50), JNum(69), JNum(70), JNum(90)}
OracleStatusValues  == Statuses \cup {"ABSENT", "OTHER"}
TextValues          == {JNull, JStr(1), JObj(2)}

\* Every reply the oracle may give to the prompt built for `reg`.
OracleOutcomes(reg) ==
    {Failure(k) : k \in FailureKinds}
    \cup
    {Outcome("object", e[1], e[2], cf, hi, conf, st, det, mis) :
        e \in {<<reg.regulation_id, reg.regulation_name>>, <<Absent, Absent>>},
        cf \in ContradictionValues, hi \in HasInfoValues,
        conf \in ConfidenceValues, st \in OracleStatusValues,
        det \in TextValues, mis \in TextValues}

----------------------------------------------------------------------------
(* check_regulation_compliance                                             *)

ResultRec(rid, rname, cf, hi, conf, status, details, missing, expl, err) ==
    [regulation_id |-> rid, regulation_name |-> rname,
     contradiction_found |-> cf, has_relevant_information |-> hi,
     confidence_score |-> conf, compliance_status |-> status,
     contradiction_details |-> details, missing_information |-> missing,
     explanation |-> expl, error |-> err]

NoResult ==
    ResultRec(Absent, Absent, Absent, Absent, Absent, "NONE", Absent, Absent, "", "")

\* The text of the exception the try block raises for outcome o, "" if none.
\* The comparison `confidence < 0.7` is only evaluated when neither of the
\* first two branches is taken.
RaisedError(o) ==
    CASE o.kind = "raise"       -> "oracle call failed"
      [] o.kind = "unparseable" -> "Expecting value"
      [] o.kind = "nonobject"   -> "object has no attribute 'get'"
      [] OTHER ->
            IF /\ ~PyEqTrue(Get(o.contradiction_found, JBool(FALSE)))
               /\ ~PyEqFalse(Get(o.has_relevant_information, JBool(TRUE)))
               /\ ~PyOrdered(Get(o.confidence_score, JNum(DefaultConfidence)))
            THEN "'<' not supported"
            ELSE ""

\* Mutants of the if/elif chain: the missing-information test first; the
\* threshold test with <=; the oracle's own status kept when it names one.
ClassifyStatus_InfoFirst(o) ==
    LET contradiction_found == Get(o.contradiction_found, JBool(FALSE))
        has_info            == Get(o.has_relevant_information, JBool(TRUE))
        confidence          == Get(o.confidence_score, JNum(DefaultConfidence))
    IN  IF PyEqFalse(has_info) THEN "INSUFFICIENT_INFORMATION"
        ELSE IF PyEqTrue(contradiction_found) THEN "NON_COMPLIANT"
        ELSE IF PyHundredths(confidence) < ConfidenceThreshold THEN "HUMAN_REQUIRED"
        ELSE "COMPLIANT"

ClassifyStatus_Leq(o) ==
    LET contradiction_found == Get(o.contradiction_found, JBool(FALSE))
        has_info            == Get(o.has_relevant_information, JBool(TRUE))
        confidence          == Get(o.confidence_score, JNum(DefaultConfidence))
    IN  IF PyEqTrue(contradiction_found) THEN "NON_COMPLIANT"
        ELSE IF PyEqFalse(has_info) THEN "INSUFFICIENT_INFORMATION"
        ELSE IF PyHundredths(confidence) <= ConfidenceThreshold THEN "HUMAN_REQUIRED"
        ELSE "COMPLIANT"

ClassifyStatus_TrustOracle(o) ==
    LET contradiction_found == Get(o.contradiction_found, JBool(FALSE))
        has_info            == Get(o.has_relevant_information, JBool(TRUE))
        confidence          == Get(o.confidence_score, JNum(DefaultConfidence))
    IN  IF o.compliance_status \in Statuses THEN o.compliance_status
        ELSE IF PyEqTrue(contradiction_found) THEN "NON_COMPLIANT"
        ELSE IF PyEqFalse(has_info) THEN "INSUFFICIENT_INFORMATION"
        ELSE IF PyHundredths(confidence) < ConfidenceThreshold THEN "HUMAN_REQUIRED"
        ELSE "COMPLIANT"

\* "Apply classification logic based on findings" (the if/elif chain).
ClassifyStatus(o) ==
    LET contradiction_found == Get(o.contradiction_found, JBool(FALSE))
        has_info            == Get(o.has_relevant_information, JBool(TRUE))
        confidence          == Get(o.confidence_score, JNum(DefaultConfidence))
    IN  IF PyEqTrue(contradiction_found) THEN "NON_COMPLIANT"
        ELSE IF PyEqFalse(has_info) THEN "INSUFFICIENT_INFORMATION"
        ELSE IF PyHundredths(confidence) < ConfidenceThreshold THEN "HUMAN_REQUIRED"
        ELSE "COMPLIANT"

\* Mutant of the except branch: a fail-closed fallback.
ErrorResult_FailClosed(reg, err) ==
    ResultRec(Get(reg.regulation_id, StrNA), Get(reg.regulation_name, StrUnknown),
              JBool(FALSE), Absent, Absent, "HUMAN_REQUIRED", Absent, Absent,
              "Error during analysis: " \o err, err)

\* The dict returned by the except branch.
ErrorResult(reg, err) ==
    ResultRec(Get(reg.regulation_id, StrNA), Get(reg.regulation_name, StrUnknown),
              JBool(FALSE), Absent, Absent, "COMPLIANT", Absent, Absent,
              "Error during analysis: " \o err, err)

check_regulation_compliance(reg, o) ==
    IF RaisedError(o) # ""
    THEN ErrorResult(reg, RaisedError(o))
    ELSE ResultRec(o.regulation_id, o.regulation_name,
                   o.contradiction_found, o.has_relevant_information,
                   o.confidence_score, ClassifyStatus(o),
                   o.contradiction_details, o.missing_information,
                   "oracle explanation", "")

----------------------------------------------------------------------------
(* merge_duplicate_regulations and deduplicate_regulations                 *)

MaxRecords   == 4       \* longest input list
MaxBatchSize == 2       \* largest batch_size of a direct call (the smallest is 2)
MaxPairs     == 2       \* most pairs the oracle reports over one run
DefaultBatchSize == 50  \* batch_size: int = 50

JInt(n) == [t |-> "int", v |-> n]

NoSummary == [original_count |-> -1, cleaned_count |-> -1, duplicates_removed |-> -1]

\* One element of "duplicates_found"; has_reason: the key `reason` is there.
Pair(d, k, has_reason) ==
    [delete_index |-> d, keep_index |-> k, has_reason |-> has_reason]

\* The pairs the oracle may report about a list of n records: every pair of
\* positions of the list, and the replies that do not conform (an index
\* before the start or past the end, a missing or non-integer index, a
\* missing reason).
OraclePairs(n) ==
    {Pair(JInt(d), JInt(k), TRUE) : d \in 0..(n - 1), k \in 0..(n - 1)}
    \cup
    {Pair(JInt(-1), JInt(0), TRUE), Pair(JInt(0), JInt(-1), TRUE),
     Pair(JInt(n), JInt(0), TRUE), Pair(JInt(0), JInt(n), TRUE),
     Pair(JInt(-(n + 1)), JInt(0), TRUE),
     Pair(Absent, JInt(0), TRUE), Pair(JInt(0), Absent, TRUE),
     Pair(JStr(1), JInt(0), TRUE), Pair(JInt(0), JStr(1), TRUE),
     Pair(JInt(0), JInt(1), FALSE)}

\* dup[key] + batch_start if batch_start > 0 else dup[key]
AdjustRaises(x, start) ==
    \/ x = Absent                           \* KeyError
    \/ (start > 0 /\ x.t # "int")           \* TypeError: str + int

AdjustIndex(x, start) ==
    IF start > 0 THEN JInt(x.v + start) ELSE x

PairRaises(p, start) ==
    AdjustRaises(p.delete_index, start) \/ AdjustRaises(p.keep_index, start)

\* The pairs of one reply that reach all_deletions: those before the first
\* pair whose adjustment raises, which ends the batch in the except branch.
RECURSIVE AdjustedPairs(_, _)
AdjustedPairs(pairs, start) ==
    IF pairs = <<>> \/ PairRaises(Head(pairs), start)
    THEN <<>>
    ELSE <<Pair(AdjustIndex(Head(pairs).delete_index, start),
                AdjustIndex(Head(pairs).keep_index, start),
                Head(pairs).has_reason)>>
         \o AdjustedPairs(Tail(pairs), start)

\* What one pass of the deletion-log loop does with dup, for a list of n.
\*   "raise": the comparison, the list access or dup["reason"] raises
\*   "log":   an entry is logged and delete_index is marked
\*   "skip":  an index is not below len(regulations)
DupEffect(dup, n) ==
    IF dup.delete_index.t # "int" THEN "raise"
    ELSE IF dup.delete_index.v >= n THEN "skip"
    ELSE IF dup.keep_index.t # "int" THEN "raise"
    ELSE IF dup.keep_index.v >= n THEN "skip"
    ELSE IF dup.delete_index.v < -n \/ dup.keep_index.v < -n THEN "raise"
    ELSE IF ~dup.has_reason THEN "raise"
    ELSE "log"

BuildRaises(dels, n) ==
    \E i \in DOMAIN dels : DupEffect(dels[i], n) = "raise"

LoggedPairs(dels, n) ==
    SelectSeq(dels, LAMBDA dup : DupEffect(dup, n) = "log")

BuildDeletionLog(dels, n) ==
    [i \in DOMAIN LoggedPairs(dels, n) |->
        [deleted_index |-> LoggedPairs(dels, n)[i].delete_index.v,
         kept_index |-> LoggedPairs(dels, n)[i].keep_index.v]]

\* A variant that marks both records of a logged pair.
IndicesToDelete_WithKept(dels, n) ==
    {LoggedPairs(dels, n)[i].delete_index.v : i \in DOMAIN LoggedPairs(dels, n)}
    \cup {LoggedPairs(dels, n)[i].keep_index.v : i \in DOMAIN LoggedPairs(dels, n)}

IndicesToDelete(dels, n) ==
    {LoggedPairs(dels, n)[i].delete_index.v : i \in DOMAIN LoggedPairs(dels, n)}

\* [reg for i, reg in enumerate(regulations) if i not in indices_to_delete]
RECURSIVE KeepFrom(_, _, _)
KeepFrom(regs, i, marked) ==
    IF i >= Len(regs) THEN <<>>
    ELSE (IF i \in marked THEN <<>> ELSE <<regs[i + 1]>>)
         \o KeepFrom(regs, i + 1, marked)

CleanedList(regs, dels) == KeepFrom(regs, 0, IndicesToDelete(dels, Len(regs)))

\* "duplicates_removed": len(deletion_log)
DuplicatesRemoved(log) == Len(log)

DedupSummary(regs, cleaned, log) ==
    [original_count |-> Len(regs), cleaned_count |-> Len(cleaned),
     duplicates_removed |-> DuplicatesRemoved(log)]

\* print_deduplication_report divides by original_count.
ReportRaises(regs) == Len(regs) = 0

----------------------------------------------------------------------------
(* generate_compliance_report                                              *)

\* sum(1 for r in results if r.get('compliance_status') == st)
CountStatus_ShortLabel(rs, st) ==
    Cardinality({i \in DOMAIN rs :
        rs[i].compliance_status =
            IF st = "INSUFFICIENT_INFORMATION" THEN "INSUFFICIENT_INFO" ELSE st})

CountStatus(rs, st) ==
    Cardinality({i \in DOMAIN rs : rs[i].compliance_status = st})

\* [r for r in results if r.get('compliance_status') in sts]
WithStatus(rs, sts) ==
    SelectSeq(rs, LAMBDA r : r.compliance_status \in sts)

\* The nearest integer to num / den, ties to the even one (Python's round).
RoundHalfEven(num, den) ==
    LET q == num \div den
        r == num % den
    IN  IF 2 * r < den THEN q
        ELSE IF 2 * r > den THEN q + 1
        ELSE IF q % 2 = 0 THEN q ELSE q + 1

\* round(compliant / definitive_total * 100, 1), in tenths of a percent.
ComplianceRate_OverTotal(compliant, non_compliant, total) ==
    IF total > 0 THEN RoundHalfEven(compliant * 1000, total) ELSE 0

ComplianceRate(compliant, non_compliant, total) ==
    LET definitive_total == compliant + non_compliant
    IN  IF definitive_total > 0
        THEN RoundHalfEven(compliant * 1000, definitive_total)
        ELSE 0

\* The level of `overall` and the count its text embeds.
OverallStatus_ReviewFirst(non_compliant, insufficient_info, human_required, total) ==
    IF insufficient_info > 0 \/ human_required > 0
    THEN [level |-> "REVIEW_REQUIRED", count |-> insufficient_info + human_required]
    ELSE IF non_compliant > 0
    THEN [level |-> "NON_COMPLIANT", count |-> non_compliant]
    ELSE [level |-> "COMPLIANT", count |-> total]

OverallStatus(non_compliant, insufficient_info, human_required, total) ==
    IF non_compliant > 0
    THEN [level |-> "NON_COMPLIANT", count |-> non_compliant]
    ELSE IF insufficient_info > 0 \/ human_required > 0
    THEN [level |-> "REVIEW_REQUIRED", count |-> insufficient_info + human_required]
    ELSE [level |-> "COMPLIANT", count |-> total]

generate_compliance_report(rs) ==
    LET compliant         == CountStatus(rs, "COMPLIANT")
        non_compliant     == CountStatus(rs, "NON_COMPLIANT")
        insufficient_info == CountStatus(rs, "INSUFFICIENT_INFORMATION")
        human_required    == CountStatus(rs, "HUMAN_REQUIRED")
        total             == Len(rs)
    IN  [overall_status |->
            OverallStatus(non_compliant, insufficient_info, human_required, total),
         summary |->
            [compliant |-> compliant, non_compliant |-> non_compliant,
             insufficient_info |-> insufficient_info,
             human_required |-> human_required, total |-> total,
             compliance_rate |-> ComplianceRate(compliant, non_compliant, total)],
         violations |-> WithStatus(rs, {"NON_COMPLIANT"}),
         needs_review |-> WithStatus(rs, {"INSUFFICIENT_INFORMATION", "HUMAN_REQUIRED"}),
         detailed_results |-> rs]

NoReport ==
    [overall_status |-> [level |-> "NONE", count |-> 0],
     summary |-> [compliant |-> 0, non_compliant |-> 0, insufficient_info |-> 0,
                  human_required |-> 0, total |-> 0, compliance_rate |-> 0],
     violations |-> <<>>, needs_review |-> <<>>, detailed_results |-> <<>>]

----------------------------------------------------------------------------
(* Quality scoring: RPEM.calculate_quality_score and                       *)
(* filter_regulations_funcs.calculate_regulation_quality_score.            *)
(* A field value is a record: k is its kind, and for a mapping or a list   *)
(* the four counts say how many of its members are                         *)
(*   blank:    None, "", "null" (in a mapping also [])                      *)
(*   sentinel: "N/A", "Unknown"                                             *)
(*   falsy:    False, 0                                                     *)
(*   full:     any other scalar                                             *)
(* Kinds: "absent" (key not in the record), "none", "empty" (""),          *)
(* "null" (the string), "na", "unknown", "text", "false", "true", "zero",  *)
(* "number", "dict", "list".                                               *)

Scalar(kind) == [k |-> kind, blank |-> 0, sentinel |-> 0, falsy |-> 0, full |-> 0]
Mapping(b, s, f, x) == [k |-> "dict", blank |-> b, sentinel |-> s, falsy |-> f, full |-> x]
ListOf(b, s, f, x) == [k |-> "list", blank |-> b, sentinel |-> s, falsy |-> f, full |-> x]

Size(v) == v.blank + v.sentinel + v.falsy + v.full

CriticalFields == {"regulation_id", "regulation_name", "regulation_type", "description"}
ImportantFields == {"jurisdiction", "domain", "scope", "requirements", "restrictions"}
SupplementaryOrder ==
    <<"rights_granted", "exceptions", "compliance_requirements", "enforcement",
      "dates", "keywords">>
SupplementaryFields == {SupplementaryOrder[i] : i \in DOMAIN SupplementaryOrder}
TemplateFields == CriticalFields \cup ImportantFields \cup SupplementaryFields

CriticalPoints == 10
ImportantPoints == 6
SupplementaryPoints == 5
KeepScore == 70
ReviewScore == 40
HeavyPenalty == 20
LightPenalty == 10

\* Scores are exact fractions, counted in units of 1/ScoreScale of a point;
\* every mapping size up to 7 divides ScoreScale.
ScoreScale == 420

\* bool(value)
IsTrue(v) ==
    CASE v.k \in {"absent", "none", "empty", "false", "zero"} -> FALSE
      [] v.k \in {"dict", "list"} -> Size(v) > 0
      [] OTHER -> TRUE

\* value in [None, "null", ""]
InBlanks(v) == v.k \in {"absent", "none", "null", "empty"}

\* value in [None, "null", "", "N/A", "Unknown"]
InSentinels(v) == InBlanks(v) \/ v.k \in {"na", "unknown"}

\* sum(1 for v in value.values() if v and v not in [None, "null", ""]); for
\* filter_regulations_funcs the list also has [], which is not true either.
NonNull(v) == v.sentinel + v.full

Min(a, b) == IF a < b THEN a ELSE b
Max(a, b) == IF a > b THEN a ELSE b

\* RPEM.calculate_quality_score, one field of each tier.
RPEM_Critical(v) ==
    IF IsTrue(v) /\ ~InSentinels(v)
    THEN IF v.k = "dict"
         THEN (CriticalPoints * ScoreScale * NonNull(v)) \div Max(Size(v), 1)
         ELSE CriticalPoints * ScoreScale
    ELSE 0

RPEM_Important(v) ==
    IF IsTrue(v) /\ ~InBlanks(v)
    THEN IF v.k = "dict"
         THEN (ImportantPoints * ScoreScale * NonNull(v)) \div Max(Size(v), 1)
         ELSE IF v.k = "list"
         THEN ImportantPoints * ScoreScale * (IF Size(v) > 0 THEN 1 ELSE 0)
         ELSE ImportantPoints * ScoreScale
    ELSE 0

RPEM_Supplementary(v) ==
    IF IsTrue(v) /\ ~InBlanks(v) THEN SupplementaryPoints * ScoreScale ELSE 0

\* filter_regulations_funcs.calculate_regulation_quality_score, one field of
\* each tier.
FF_Critical(v) ==
    IF IsTrue(v) /\ ~InSentinels(v)
    THEN IF v.k = "dict"
         THEN (IF NonNull(v) > 0 THEN CriticalPoints * ScoreScale ELSE 0)
         ELSE CriticalPoints * ScoreScale
    ELSE 0

FF_Important(v) ==
    IF IsTrue(v) /\ ~InBlanks(v)
    THEN IF v.k = "dict"
         THEN (IF Size(v) > 0
               THEN (ImportantPoints * ScoreScale * NonNull(v)) \div Size(v)
               ELSE 0)
         ELSE IF v.k = "list"
         THEN (IF Size(v) > 0 THEN ImportantPoints * ScoreScale ELSE 0)
         ELSE ImportantPoints * ScoreScale
    ELSE 0

FF_Supplementary(v) ==
    IF IsTrue(v) /\ ~InBlanks(v)
    THEN IF v.k = "dict"
         THEN (IF NonNull(v) > 0
               THEN (SupplementaryPoints * ScoreScale * Min(2, NonNull(v))) \div 2
               ELSE 0)
         ELSE SupplementaryPoints * ScoreScale
    ELSE 0

\* The points one field earns, and the points of its tier.
FieldPoints(which, f, v) ==
    IF f \in CriticalFields
    THEN (IF which = "RPEM" THEN RPEM_Critical(v) ELSE FF_Critical(v))
    ELSE IF f \in ImportantFields
    THEN (IF which = "RPEM" THEN RPEM_Important(v) ELSE FF_Important(v))
    ELSE (IF which = "RPEM" THEN RPEM_Supplementary(v) ELSE FF_Supplementary(v))

FullPoints(f) ==
    ScoreScale * (IF f \in CriticalFields THEN CriticalPoints
                  ELSE IF f \in ImportantFields THEN ImportantPoints
                  ELSE SupplementaryPoints)

\* The sum of f[x] over the members x of S.
RECURSIVE SumOver(_, _)
SumOver(f, S) ==
    IF S = {} THEN 0
    ELSE LET x == CHOOSE y \in S : TRUE
         IN  f[x] + SumOver(f, S \ {x})

\* count_nulls for one value of the record: <<null_count, total_count>>.
CountNullsOf(v) ==
    CASE v.k = "absent" -> <<0, 0>>
      [] v.k \in {"none", "null", "empty", "na", "unknown"} -> <<1, 1>>
      [] v.k = "list" /\ Size(v) = 0 -> <<1, 1>>
      [] v.k \in {"dict", "list"} -> <<v.blank + v.sentinel, Size(v)>>
      [] OTHER -> <<0, 1>>

NullCount(reg) == SumOver([f \in DOMAIN reg |-> CountNullsOf(reg[f])[1]], DOMAIN reg)
TotalCount(reg) == SumOver([f \in DOMAIN reg |-> CountNullsOf(reg[f])[2]], DOMAIN reg)

\* What reg["_quality_score"] holds: nothing, or an assessment with so many
\* issues and strengths.
NotAttached == [present |-> FALSE, issues |-> 0, strengths |-> 0]
Attached(i, s) == [present |-> TRUE, issues |-> i, strengths |-> s]

\* count_nulls for the value of "_quality_score": score, max_score,
\* percentage, null_ratio, recommendation and status are values; issues and
\* strengths are lists of strings, and an empty list is a null.
CountNullsOfAttached(att) ==
    IF ~att.present THEN <<0, 0>>
    ELSE <<(IF att.issues = 0 THEN 1 ELSE 0) + (IF att.strengths = 0 THEN 1 ELSE 0),
           6 + Max(att.issues, 1) + Max(att.strengths, 1)>>

\* null_ratio > tenths/10 for a record that carries att, with
\* null_ratio = 1 for a record without values
RatioAboveWith(reg, att, tenths) ==
    LET nulls == NullCount(reg) + CountNullsOfAttached(att)[1]
        total == TotalCount(reg) + CountNullsOfAttached(att)[2]
    IN  IF total > 0 THEN 10 * nulls > tenths * total ELSE 10 > tenths

RatioAbove(reg, tenths) == RatioAboveWith(reg, NotAttached, tenths)

\* score = max(0, score - penalty)
Penalised_NoFloor(score, penalty) == score - penalty * ScoreScale

Penalised(score, penalty) == Max(0, score - penalty * ScoreScale)

\* The score before rounding, in units of 1/ScoreScale.
RPEM_RawScore(reg) ==
    SumOver([f \in CriticalFields |-> RPEM_Critical(reg[f])], CriticalFields)
    + SumOver([f \in ImportantFields |-> RPEM_Important(reg[f])], ImportantFields)
    + SumOver([f \in SupplementaryFields |-> RPEM_Supplementary(reg[f])],
              SupplementaryFields)

FF_TierScore(reg) ==
    SumOver([f \in CriticalFields |-> FF_Critical(reg[f])], CriticalFields)
    + SumOver([f \in ImportantFields |-> FF_Important(reg[f])], ImportantFields)
    + SumOver([f \in SupplementaryFields |-> FF_Supplementary(reg[f])],
              SupplementaryFields)

FF_RawScoreWith(reg, att) ==
    IF RatioAboveWith(reg, att, 7) THEN Penalised(FF_TierScore(reg), HeavyPenalty)
    ELSE IF RatioAboveWith(reg, att, 5) THEN Penalised(FF_TierScore(reg), LightPenalty)
    ELSE FF_TierScore(reg)

FF_RawScore(reg) == FF_RawScoreWith(reg, NotAttached)

\* len(issues) and len(strengths) of the assessment of
\* filter_regulations_funcs for a record that carries att.
FF_Issues(reg, att) ==
    Cardinality({f \in CriticalFields : FF_Critical(reg[f]) = 0})
    + Cardinality({f \in ImportantFields :
          \/ ~(IsTrue(reg[f]) /\ ~InBlanks(reg[f]))
          \/ (reg[f].k = "dict" /\ 2 * NonNull(reg[f]) < Size(reg[f]))})
    + (IF RatioAboveWith(reg, att, 5) THEN 1 ELSE 0)

FF_Strengths(reg) ==
    Cardinality({f \in CriticalFields : FF_Critical(reg[f]) > 0})
    + Cardinality({f \in ImportantFields :
          /\ IsTrue(reg[f]) /\ ~InBlanks(reg[f])
          /\ \/ reg[f].k = "list"
             \/ (reg[f].k = "dict" /\ 2 * NonNull(reg[f]) >= Size(reg[f]))})

\* len(issues) and len(strengths) of the assessment of RPEM.
RPEM_Issues(reg) ==
    Cardinality({f \in CriticalFields : ~(IsTrue(reg[f]) /\ ~InSentinels(reg[f]))})
    + Cardinality({f \in ImportantFields : ~(IsTrue(reg[f]) /\ ~InBlanks(reg[f]))})

RPEM_Strengths(reg) ==
    Cardinality({f \in CriticalFields : IsTrue(reg[f]) /\ ~InSentinels(reg[f])})

\* if score >= 70 ... elif score >= 40 ... else, on the score before rounding
Recommendation_Swapped(raw) ==
    IF raw >= ReviewScore * ScoreScale THEN "REVIEW"
    ELSE IF raw >= KeepScore * ScoreScale THEN "KEEP"
    ELSE "DISCARD"

Recommendation(raw) ==
    IF raw >= KeepScore * ScoreScale THEN "KEEP"
    ELSE IF raw >= ReviewScore * ScoreScale THEN "REVIEW"
    ELSE "DISCARD"

\* The returned assessment; "score" is round(score, 1), in tenths of a point.
Assessment(raw) ==
    [score |-> RoundHalfEven(10 * raw, ScoreScale),
     recommendation |-> Recommendation(raw)]

NoAssessment == [score |-> -1, recommendation |-> "none"]

\* A record in which every field of the template is missing.
EmptyRecord == [f \in TemplateFields |-> Scalar("absent")]

calculate_quality_score(reg) == Assessment(RPEM_RawScore(reg))

calculate_regulation_quality_score(reg) == Assessment(FF_RawScore(reg))

ScoreBy(which, reg) ==
    IF which = "RPEM" THEN calculate_quality_score(reg)
    ELSE calculate_regulation_quality_score(reg)

\* The assessment of a record that carries att as "_quality_score":
\* calculate_quality_score reads the template fields only, count_nulls of
\* calculate_regulation_quality_score walks every value of the record.
ScoreWith(which, reg, att) ==
    IF which = "RPEM" THEN calculate_quality_score(reg)
    ELSE Assessment(FF_RawScoreWith(reg, att))

\* reg["_quality_score"] after that assessment has been attached.
AttachedBy(which, reg, att) ==
    IF which = "RPEM" THEN Attached(RPEM_Issues(reg), RPEM_Strengths(reg))
    ELSE Attached(FF_Issues(reg, att), FF_Strengths(reg))

NoFilterResult == [kept |-> <<>>, review |-> <<>>, discarded |-> <<>>]

----------------------------------------------------------------------------
(* check_all_regulations, followed by generate_compliance_report           *)

MaxRegulations == 3

\* Regulation records as the extractor stores them: an id, and a name that is
\* a string or missing.
RegulationLists ==
    UNION {[1..n -> {[regulation_id |-> JStr(1), regulation_name |-> JStr(1)]}
                    \cup {[regulation_id |-> JStr(2), regulation_name |-> Absent]}]
           : n \in 0..MaxRegulations}

Reply(reg, cf, hi, conf, details, missing) ==
    Outcome("object", reg.regulation_id, reg.regulation_name,
            JBool(cf), JBool(hi), conf, "COMPLIANT", details, missing)

\* The oracle outcomes of a batch run: one per kind of result, with the free
\* text fields as strings or as JSON objects.
BatchOutcomes(reg) ==
    {Failure("raise"),
     Reply(reg, TRUE, TRUE, JNum(90), JStr(1), JNull),
     Reply(reg, TRUE, FALSE, JNum(50), JObj(2), JNull),
     Reply(reg, FALSE, FALSE, JNum(90), JNull, JStr(1)),
     Reply(reg, FALSE, TRUE, JNum(69), JNull, JNull),
     Reply(reg, FALSE, TRUE, JNum(90), JNull, JNull),
     Reply(reg, FALSE, TRUE, JNull, JNull, JNull)}

\* reg_name = reg.get('regulation_name') or 'Unknown'; reg_name[:55]
NameSliceRaises(reg) ==
    LET reg_name == IF Truthy(reg.regulation_name)
                    THEN reg.regulation_name ELSE StrUnknown
    IN  ~Sliceable(reg_name)

\* The progress prints of the verbose branch slice the oracle's free text.
VerbosePrintRaises(r) ==
    CASE r.compliance_status = "NON_COMPLIANT" ->
            Truthy(r.contradiction_details) /\ ~Sliceable(r.contradiction_details)
      [] r.compliance_status = "INSUFFICIENT_INFORMATION" ->
            Truthy(r.missing_information) /\ ~Sliceable(r.missing_information)
      [] OTHER -> FALSE

----------------------------------------------------------------------------
(* The values of the variables of a component that is not running.         *)

IdleCall ==
    /\ regulation = [regulation_id |-> Absent, regulation_name |-> Absent]
    /\ response = Failure("none")
    /\ result = NoResult
    /\ call_pc = "idle"

IdleAll ==
    /\ regulations = <<>>
    /\ verbose = FALSE
    /\ replies = <<>>
    /\ results = <<>>
    /\ pc = "idle"
    /\ report = NoReport

IdleMerge ==
    /\ entry = "none"
    /\ records = <<>>
    /\ batch_size = 0
    /\ batch_start = 0
    /\ oracle_log = <<>>
    /\ all_deletions = <<>>
    /\ merge_pc = "idle"
    /\ cleaned_regulations = <<>>
    /\ deletion_log = <<>>
    /\ summary = NoSummary
    /\ oracle_pairs = {}
    /\ run = 0

IdleHistory ==
    /\ history = <<>>
    /\ deletes = 0
    /\ clears = 0

IdleSplit ==
    /\ markdown_text = <<>>
    /\ sections = <<>>
    /\ split_pc = "idle"

IdleExtract ==
    /\ doc_sections = <<>>
    /\ rpem_verbose = FALSE
    /\ oracle_replies = <<>>
    /\ analysis_results = <<>>
    /\ all_regulations = <<>>
    /\ extract_pc = "idle"

IdleRest == IdleHistory /\ IdleSplit /\ IdleExtract

IdleScore ==
    /\ scorer = "none"
    /\ record = EmptyRecord
    /\ quality = NoAssessment
    /\ previous = NoAssessment
    /\ populated = FALSE
    /\ score_pc = "idle"
    /\ reg_list = <<>>
    /\ min_score = 0
    /\ kept = <<>>
    /\ review = <<>>
    /\ discarded = <<>>
    /\ filter_pc = "idle"
    /\ attached = <<>>
    /\ filter_run = 0
    /\ first_result = NoFilterResult

----------------------------------------------------------------------------
(* One call of check_regulation_compliance.                                *)

RegulationInputs ==
    {[regulation_id |-> i, regulation_name |-> n] :
        i \in {JStr(1), Absent}, n \in {JStr(1), Absent, JNum(500)}}

InitCall ==
    /\ regulation \in RegulationInputs
    /\ response = Failure("none")
    /\ result = NoResult
    /\ call_pc = "call"
    /\ IdleAll
    /\ IdleMerge
    /\ IdleScore
    /\ IdleRest

CheckRegulationCompliance ==
    /\ call_pc = "call"
    /\ \E o \in OracleOutcomes(regulation) :
          /\ response' = o
          /\ result' = check_regulation_compliance(regulation, o)
    /\ call_pc' = "returned"
    /\ UNCHANGED <<regulation, allVars, mergeVars, scoreVars, restVars>>

NextCall == CheckRegulationCompliance

SpecCall == InitCall /\ [][NextCall]_vars

----------------------------------------------------------------------------
(* The run of check_all_regulations and generate_compliance_report.        *)

InitAll ==
    /\ regulations \in RegulationLists
    /\ verbose \in BOOLEAN
    /\ replies = <<>>
    /\ results = <<>>
    /\ pc = "checking"
    /\ report = NoReport
    /\ IdleCall
    /\ IdleMerge
    /\ IdleScore
    /\ IdleRest

\* One iteration of `for i, reg in enumerate(regulations)`.
CheckNextRegulation ==
    /\ pc = "checking"
    /\ Len(results) < Len(regulations)
    /\ LET reg == regulations[Len(results) + 1]
       IN  IF NameSliceRaises(reg)
           THEN /\ pc' = "raised"
                /\ UNCHANGED <<replies, results>>
           ELSE \E o \in BatchOutcomes(reg) :
                   LET r == check_regulation_compliance(reg, o)
                   IN  /\ replies' = Append(replies, o)
                       /\ IF verbose /\ VerbosePrintRaises(r)
                          THEN /\ pc' = "raised"
                               /\ UNCHANGED results
                          ELSE /\ results' = Append(results, r)
                               /\ UNCHANGED pc
    /\ UNCHANGED <<regulations, verbose, report, ccmVars, mergeVars, scoreVars, restVars>>

\* `return results`
ReturnResults ==
    /\ pc = "checking"
    /\ Len(results) = Len(regulations)
    /\ pc' = "done"
    /\ UNCHANGED <<regulations, verbose, replies, results, report, ccmVars, mergeVars, scoreVars, restVars>>

\* report = generate_compliance_report(results)
GenerateComplianceReport ==
    /\ pc = "done"
    /\ report' = generate_compliance_report(results)
    /\ pc' = "reported"
    /\ UNCHANGED <<regulations, verbose, replies, results, ccmVars, mergeVars, scoreVars, restVars>>

NextAll ==
    \/ CheckNextRegulation
    \/ ReturnResults
    \/ GenerateComplianceReport

SpecAll == InitAll /\ [][NextAll]_vars

----------------------------------------------------------------------------
(* The run of merge_duplicate_regulations / deduplicate_regulations.       *)

PairsSoFar ==
    IF oracle_log = <<>> THEN 0
    ELSE LET Sum[i \in 0..Len(oracle_log)] ==
                IF i = 0 THEN 0 ELSE Sum[i - 1] + Len(oracle_log[i].pairs)
         IN  Sum[Len(oracle_log)]

\* The replies of the oracle to one batch: a failed call or an unparseable
\* reply ("raise"), or an object with its "duplicates_found" list.
BatchReplies(n, room) ==
    {[kind |-> "raise", pairs |-> <<>>], [kind |-> "object", pairs |-> <<>>]}
    \cup (IF room >= 1
          THEN {[kind |-> "object", pairs |-> <<p>>] : p \in OraclePairs(n)}
          ELSE {})
    \cup (IF room >= 2
          THEN {[kind |-> "object", pairs |-> <<p, q>>] :
                    p \in OraclePairs(n), q \in OraclePairs(n)}
          ELSE {})

InitMerge ==
    /\ entry \in {"merge", "deduplicate"}
    /\ \E n \in 0..MaxRecords : records = [i \in 1..n |-> i]
    /\ batch_size \in IF entry = "merge" THEN 2..MaxBatchSize ELSE {DefaultBatchSize}
    /\ batch_start = 0
    /\ oracle_log = <<>>
    /\ all_deletions = <<>>
    /\ merge_pc = "batches"
    /\ cleaned_regulations = <<>>
    /\ deletion_log = <<>>
    /\ summary = NoSummary
    /\ oracle_pairs = {}
    /\ run = 0
    /\ IdleCall
    /\ IdleAll
    /\ IdleScore
    /\ IdleRest

\* One iteration of `for batch_start in range(0, len(reg_summaries), batch_size)`
\* in which the oracle answers reply.
BatchStep(reply) ==
    /\ oracle_log' = Append(oracle_log,
          [batch_start |-> batch_start, kind |-> reply.kind,
           pairs |-> reply.pairs])
    /\ all_deletions' =
          IF reply.kind = "object"
          THEN all_deletions \o AdjustedPairs(reply.pairs, batch_start)
          ELSE all_deletions
    /\ batch_start' = batch_start + batch_size
    /\ UNCHANGED <<entry, records, batch_size, merge_pc, cleaned_regulations,
                   deletion_log, summary, rerunVars, ccmVars, allVars, scoreVars, restVars>>

ProcessBatch ==
    /\ merge_pc = "batches"
    /\ Len(records) > 1
    /\ batch_start < Len(records)
    /\ \E reply \in BatchReplies(Len(records), MaxPairs - PairsSoFar) :
          BatchStep(reply)

\* The early return, or the code after the batch loop up to the return; for
\* deduplicate_regulations also the report and the summary.
ReturnCleaned ==
    /\ merge_pc = "batches"
    /\ Len(records) <= 1 \/ batch_start >= Len(records)
    /\ IF \/ BuildRaises(all_deletions, Len(records))
          \/ (entry = "deduplicate" /\ ReportRaises(records))
       THEN /\ merge_pc' = "raised"
            /\ UNCHANGED <<cleaned_regulations, deletion_log, summary>>
       ELSE /\ merge_pc' = "done"
            /\ cleaned_regulations' = CleanedList(records, all_deletions)
            /\ deletion_log' = BuildDeletionLog(all_deletions, Len(records))
            /\ summary' =
                  IF entry = "deduplicate"
                  THEN DedupSummary(records, CleanedList(records, all_deletions),
                                    BuildDeletionLog(all_deletions, Len(records)))
                  ELSE NoSummary
    /\ UNCHANGED <<entry, records, batch_size, batch_start, oracle_log,
                   all_deletions, rerunVars, ccmVars, allVars, scoreVars, restVars>>

NextMerge ==
    \/ ProcessBatch
    \/ ReturnCleaned

SpecMerge == InitMerge /\ [][NextMerge]_vars

----------------------------------------------------------------------------
(* Two runs of merge_duplicate_regulations, the second over the cleaned    *)
(* list of the first, against an oracle whose verdict on two records does  *)
(* not depend on the run or the batch: it reports <<a, b>> of oracle_pairs *)
(* whenever records a and b are both in the batch shown to it, naming them *)
(* by the `index` of their summaries.                                      *)

\* The `index` written in the summary of record r: its position in the list.
IndexOf(regs, r) == (CHOOSE i \in DOMAIN regs : regs[i] = r) - 1

\* The records of the batch that starts at start.
BatchRecords(regs, start, size) ==
    {regs[i] : i \in {j \in DOMAIN regs : j - 1 >= start /\ j - 1 < start + size}}

\* A set of pairs of records as a list, in the order of the records.
RECURSIVE PairList(_, _)
PairList(ps, regs) ==
    IF ps = {} THEN <<>>
    ELSE LET first == CHOOSE p \in ps : \A q \in ps :
                          \/ p[1] < q[1]
                          \/ (p[1] = q[1] /\ p[2] <= q[2])
         IN  <<Pair(JInt(IndexOf(regs, first[1])), JInt(IndexOf(regs, first[2])), TRUE)>>
             \o PairList(ps \ {first}, regs)

DeterministicReply(regs, start, size) ==
    [kind |-> "object",
     pairs |-> PairList({p \in oracle_pairs :
                            /\ p[1] \in BatchRecords(regs, start, size)
                            /\ p[2] \in BatchRecords(regs, start, size)}, regs)]

InitRerun ==
    /\ entry = "merge"
    /\ \E n \in 0..MaxRecords : records = [i \in 1..n |-> i]
    /\ batch_size \in 2..MaxBatchSize
    /\ oracle_pairs \in {ps \in SUBSET {<<a, b>> : a, b \in DOMAIN records} :
                            /\ Cardinality(ps) <= MaxPairs
                            /\ \A p \in ps : p[1] # p[2]}
    /\ run = 1
    /\ batch_start = 0
    /\ oracle_log = <<>>
    /\ all_deletions = <<>>
    /\ merge_pc = "batches"
    /\ cleaned_regulations = <<>>
    /\ deletion_log = <<>>
    /\ summary = NoSummary
    /\ IdleCall
    /\ IdleAll
    /\ IdleScore
    /\ IdleRest

ProcessBatchOfRun ==
    /\ merge_pc = "batches"
    /\ Len(records) > 1
    /\ batch_start < Len(records)
    /\ BatchStep(DeterministicReply(records, batch_start, batch_size))

\* The caller passes the cleaned list of the first run to a second run with
\* the same batch_size.
RunAgain ==
    /\ merge_pc = "done"
    /\ run = 1
    /\ run' = 2
    /\ records' = cleaned_regulations
    /\ batch_start' = 0
    /\ oracle_log' = <<>>
    /\ all_deletions' = <<>>
    /\ merge_pc' = "batches"
    /\ cleaned_regulations' = <<>>
    /\ deletion_log' = <<>>
    /\ UNCHANGED <<entry, batch_size, summary, oracle_pairs, ccmVars, allVars, scoreVars, restVars>>

NextRerun ==
    \/ ProcessBatchOfRun
    \/ ReturnCleaned
    \/ RunAgain

SpecRerun == InitRerun /\ [][NextRerun]_vars

----------------------------------------------------------------------------
(* The records given to the scoring functions.                             *)

Text == Scalar("text")
None == Scalar("none")
False == Scalar("false")

\* The record whose critical fields hold cf, whose important fields hold
\* imf, whose first n supplementary fields hold text and the others rest.
BaseRecord(cf, imf, n, rest) ==
    [f \in TemplateFields |->
        IF f \in CriticalFields THEN cf
        ELSE IF f \in ImportantFields THEN imf
        ELSE IF \E i \in 1..n : SupplementaryOrder[i] = f THEN Text
        ELSE rest]

\* Values put in place of the base value of one field of each tier
\* (description, scope, dates): mappings
\* with k non-blank sub-fields of n (0/0, 2/3, 1/7, 5/7), a mapping with a
\* false sub-field, lists, a missing key and a sentinel.
OverrideValues ==
    {Scalar("absent"), Scalar("na"), Scalar("zero"),
     ListOf(0, 0, 0, 0), ListOf(0, 0, 0, 1),
     Mapping(0, 0, 0, 0), Mapping(1, 0, 0, 2), Mapping(6, 0, 0, 1),
     Mapping(2, 0, 0, 5), Mapping(0, 0, 1, 2)}

\* In place of an override: the field keeps the value of the base record.
Unchanged == Scalar("unchanged")

ScoreInputs ==
    {[BaseRecord(cf, imf, n, rest) EXCEPT
          !["description"] = IF dv = Unchanged THEN cf ELSE dv,
          !["scope"] = IF sv = Unchanged THEN imf ELSE sv,
          !["dates"] = IF tv = Unchanged THEN @ ELSE tv] :
        cf \in {Text, None, False}, imf \in {Text, None, False},
        n \in 0..Len(SupplementaryOrder), rest \in {None, False},
        dv \in OverrideValues \cup {Unchanged}, sv \in OverrideValues \cup {Unchanged},
        tv \in OverrideValues \cup {Unchanged}}

Scorers == {"RPEM", "filter_funcs"}

----------------------------------------------------------------------------
(* One call of a scoring function.                                         *)

InitScore ==
    /\ scorer \in Scorers
    /\ record \in ScoreInputs
    /\ quality = NoAssessment
    /\ previous = NoAssessment
    /\ populated = FALSE
    /\ score_pc = "input"
    /\ reg_list = <<>>
    /\ min_score = 0
    /\ kept = <<>>
    /\ review = <<>>
    /\ discarded = <<>>
    /\ filter_pc = "idle"
    /\ attached = <<>>
    /\ filter_run = 0
    /\ first_result = NoFilterResult
    /\ IdleCall
    /\ IdleAll
    /\ IdleMerge
    /\ IdleRest

Score ==
    /\ score_pc = "input"
    /\ quality' = ScoreBy(scorer, record)
    /\ score_pc' = "scored"
    /\ UNCHANGED <<scorer, record, previous, populated, reg_list, min_score,
                   kept, review, discarded, filter_pc, refilterVars,
                   ccmVars, allVars, mergeVars, restVars>>

NextScore == Score

SpecScore == InitScore /\ [][NextScore]_vars

----------------------------------------------------------------------------
(* A record is scored, one of its blanks is filled in, and it is scored    *)
(* again.                                                                  *)

\* A blank field: missing, None, "", "null" or one of the sentinels.
IsBlank(v) == InSentinels(v)

\* The non-blank values a blank field is replaced by: scalars, a list and
\* mappings with at least one non-blank sub-field.
NonBlankValues ==
    {Text, Scalar("true"), Scalar("number"), ListOf(0, 0, 0, 1),
     Mapping(0, 0, 0, 3), Mapping(1, 0, 0, 2), Mapping(6, 0, 0, 1)}

PopulateInputs ==
    {[BaseRecord(cf, imf, n, None) EXCEPT
          !["scope"] = IF sv = Unchanged THEN imf ELSE sv] :
        cf \in {Text, None}, imf \in {Text, None},
        n \in 0..Len(SupplementaryOrder), sv \in OverrideValues \cup {Unchanged}}

InitPopulate ==
    /\ scorer \in Scorers
    /\ record \in PopulateInputs
    /\ quality = NoAssessment
    /\ previous = NoAssessment
    /\ populated = FALSE
    /\ score_pc = "input"
    /\ reg_list = <<>>
    /\ min_score = 0
    /\ kept = <<>>
    /\ review = <<>>
    /\ discarded = <<>>
    /\ filter_pc = "idle"
    /\ attached = <<>>
    /\ filter_run = 0
    /\ first_result = NoFilterResult
    /\ IdleCall
    /\ IdleAll
    /\ IdleMerge
    /\ IdleRest

\* A blank field is replaced by a non-blank value, everything else fixed.
PopulateField ==
    /\ score_pc = "scored"
    /\ ~populated
    /\ \E f \in TemplateFields, v \in NonBlankValues :
          /\ IsBlank(record[f])
          /\ record' = [record EXCEPT ![f] = v]
    /\ previous' = quality
    /\ populated' = TRUE
    /\ score_pc' = "input"
    /\ UNCHANGED <<scorer, quality, reg_list, min_score, kept, review, discarded,
                   filter_pc, refilterVars,
                   ccmVars, allVars, mergeVars, restVars>>

\* A blank sub-field of a mapping is replaced by a non-blank scalar.
PopulateSubField ==
    /\ score_pc = "scored"
    /\ ~populated
    /\ \E f \in TemplateFields :
          /\ record[f].k = "dict"
          /\ record[f].blank > 0
          /\ record' = [record EXCEPT ![f] =
                Mapping(@.blank - 1, @.sentinel, @.falsy, @.full + 1)]
    /\ previous' = quality
    /\ populated' = TRUE
    /\ score_pc' = "input"
    /\ UNCHANGED <<scorer, quality, reg_list, min_score, kept, review, discarded,
                   filter_pc, refilterVars,
                   ccmVars, allVars, mergeVars, restVars>>

NextPopulate ==
    \/ Score
    \/ PopulateField
    \/ PopulateSubField

SpecPopulate == InitPopulate /\ [][NextPopulate]_vars

----------------------------------------------------------------------------
(* filter_regulations_by_quality (RPEM) and filter_regulations             *)
(* (filter_regulations_funcs).                                             *)

MaxListed == 2
MaxMinScore == 100

FilterInputs ==
    {BaseRecord(cf, imf, n, None) :
        cf \in {Text, None}, imf \in {Text, None}, n \in {0, Len(SupplementaryOrder)}}

RegulationsToFilter ==
    UNION {[1..n -> FilterInputs] : n \in 0..MaxListed}

InitFilter ==
    /\ scorer \in Scorers
    /\ reg_list \in RegulationsToFilter
    /\ min_score \in 0..MaxMinScore
    /\ kept = <<>>
    /\ review = <<>>
    /\ discarded = <<>>
    /\ filter_pc = "filtering"
    /\ attached = [i \in DOMAIN reg_list |-> NotAttached]
    /\ filter_run = 1
    /\ first_result = NoFilterResult
    /\ record = EmptyRecord
    /\ quality = NoAssessment
    /\ previous = NoAssessment
    /\ populated = FALSE
    /\ score_pc = "idle"
    /\ IdleCall
    /\ IdleAll
    /\ IdleMerge
    /\ IdleRest

Filtered == Len(kept) + Len(review) + Len(discarded)

\* One iteration of `for reg in regulations`.
FilterRegulation ==
    /\ filter_pc = "filtering"
    /\ Filtered < Len(reg_list)
    /\ LET r == reg_list[Filtered + 1]
           q == ScoreWith(scorer, r, attached[Filtered + 1])
           scored == [reg |-> r, _quality_score |-> q]
       IN  IF q.score >= 10 * KeepScore
           THEN /\ kept' = Append(kept, scored)
                /\ UNCHANGED <<review, discarded>>
           ELSE IF q.score >= 10 * min_score
           THEN /\ review' = Append(review, scored)
                /\ UNCHANGED <<kept, discarded>>
           ELSE /\ discarded' = Append(discarded, scored)
                /\ UNCHANGED <<kept, review>>
    /\ attached' = [attached EXCEPT ![Filtered + 1] =
          AttachedBy(scorer, reg_list[Filtered + 1], attached[Filtered + 1])]
    /\ UNCHANGED <<scorer, record, quality, previous, populated, score_pc,
                   reg_list, min_score, filter_pc, filter_run, first_result,
                   ccmVars, allVars, mergeVars, restVars>>

ReturnFiltered ==
    /\ filter_pc = "filtering"
    /\ Filtered = Len(reg_list)
    /\ filter_pc' = "done"
    /\ UNCHANGED <<scorer, record, quality, previous, populated, score_pc,
                   reg_list, min_score, kept, review, discarded, refilterVars,
                   ccmVars, allVars, mergeVars, restVars>>

NextFilter ==
    \/ FilterRegulation
    \/ ReturnFiltered

SpecFilter == InitFilter /\ [][NextFilter]_vars
----------------------------------------------------------------------------
(* app.py: the history file.  An entry is modelled by its id.             *)

MaxHistory == 50
MaxDeletes == 1
MaxClears == 1

\* history[:n]
Take(seq, n) == SubSeq(seq, 1, Min(n, Len(seq)))

InitHistory ==
    /\ history = <<>>
    /\ deletes = 0
    /\ clears = 0
    /\ IdleSplit
    /\ IdleExtract
    /\ IdleCall
    /\ IdleAll
    /\ IdleMerge
    /\ IdleScore

\* entry['id'] = len(history) + 1; history.insert(0, entry);
\* history = history[:50]; save_history(history)
add_to_history ==
    /\ history' = Take(<<Len(history) + 1>> \o history, MaxHistory)
    /\ UNCHANGED <<deletes, clears, splitVars, extractVars, ccmVars, allVars, mergeVars, scoreVars>>

\* history = [item for item in history if item.get('id') != history_id]
delete_history_item(history_id) ==
    /\ deletes < MaxDeletes
    /\ deletes' = deletes + 1
    /\ history' = SelectSeq(history, LAMBDA id : id # history_id)
    /\ UNCHANGED <<clears, splitVars, extractVars, ccmVars, allVars, mergeVars, scoreVars>>

\* save_history([])
clear_history ==
    /\ clears < MaxClears
    /\ clears' = clears + 1
    /\ history' = <<>>
    /\ UNCHANGED <<deletes, splitVars, extractVars, ccmVars, allVars, mergeVars, scoreVars>>

NextHistory ==
    \/ add_to_history
    \/ \E history_id \in 1..(MaxHistory + 1) : delete_history_item(history_id)
    \/ clear_history

SpecHistory == InitHistory /\ [][NextHistory]_vars
----------------------------------------------------------------------------
(* RPEM.split_into_sections.  A text is a sequence of characters.          *)

MaxTextLen == 5

Chars == {"#", " ", "\n", "a"}
Texts == UNION {[1..n -> Chars] : n \in 0..MaxTextLen}

\* \s
IsSpace(c) == c \in {" ", "\n"}

\* The end of `#+` begun at i: the first position from i that holds no "#".
RECURSIVE RunEnd(_, _)
RunEnd(t, i) == IF i <= Len(t) /\ t[i] = "#" THEN RunEnd(t, i + 1) ELSE i

\* The end of `.*` begun at i: the first position from i that holds a line
\* break, or the position after the text.
RECURSIVE LineEnd(_, _)
LineEnd(t, i) == IF i <= Len(t) /\ t[i] # "\n" THEN LineEnd(t, i + 1) ELSE i

\* `#+\s.*` matches at i; the match ends before MatchEnd(t, i).
MatchAt(t, i) ==
    /\ t[i] = "#"
    /\ RunEnd(t, i) <= Len(t)
    /\ IsSpace(t[RunEnd(t, i)])

MatchEnd(t, i) == LineEnd(t, RunEnd(t, i) + 1)

\* re.split(r'(#+\s.*)', t) from position i on, with the text since `from`
\* not matched yet: the texts between the matches and the matches, in turn.
RECURSIVE Parts(_, _, _)
Parts(t, i, from) ==
    IF i > Len(t) THEN <<SubSeq(t, from, Len(t))>>
    ELSE IF MatchAt(t, i)
    THEN <<SubSeq(t, from, i - 1), SubSeq(t, i, MatchEnd(t, i) - 1)>>
         \o Parts(t, MatchEnd(t, i), MatchEnd(t, i))
    ELSE Parts(t, i + 1, from)

re_split(t) == Parts(t, 1, 1)

\* str.strip()
RECURSIVE LStrip(_)
LStrip(t) == IF Len(t) > 0 /\ IsSpace(t[1]) THEN LStrip(Tail(t)) ELSE t
RECURSIVE RStrip(_)
RStrip(t) ==
    IF Len(t) > 0 /\ IsSpace(t[Len(t)]) THEN RStrip(SubSeq(t, 1, Len(t) - 1)) ELSE t
Strip(t) == LStrip(RStrip(t))

\* part.startswith("#")
StartsWithHash(part) == Len(part) > 0 /\ part[1] = "#"

Section(title, content) == [title |-> title, content |-> Strip(content)]

\* `for part in parts` from part k on, and the append after the loop.
RECURSIVE SplitLoop(_, _, _, _, _)
SplitLoop(parts, k, done, current_title, current_content) ==
    IF k > Len(parts)
    THEN IF current_title # <<>>
         THEN Append(done, Section(current_title, current_content))
         ELSE done
    ELSE IF StartsWithHash(parts[k])
    THEN SplitLoop(parts, k + 1,
                   IF current_title # <<>>
                   THEN Append(done, Section(current_title, current_content))
                   ELSE done,
                   Strip(parts[k]), <<>>)
    ELSE SplitLoop(parts, k + 1, done, current_title, current_content \o parts[k])

split_into_sections(t) == SplitLoop(re_split(t), 1, <<>>, <<>>, <<>>)

InitSplit ==
    /\ markdown_text \in Texts
    /\ sections = <<>>
    /\ split_pc = "input"
    /\ IdleHistory
    /\ IdleExtract
    /\ IdleCall
    /\ IdleAll
    /\ IdleMerge
    /\ IdleScore

Split ==
    /\ split_pc = "input"
    /\ sections' = split_into_sections(markdown_text)
    /\ split_pc' = "done"
    /\ UNCHANGED <<markdown_text, historyVars, extractVars, ccmVars, allVars, mergeVars, scoreVars>>

NextSplit == Split

SpecSplit == InitSplit /\ [][NextSplit]_vars
----------------------------------------------------------------------------
(* RPEM.extract_regulations_from_section, process_all_sections and         *)
(* collect_all_regulations.  A section is modelled by its title, which is  *)
(* its number; a record the oracle proposes by its position in the         *)
(* oracle's list.                                                          *)

MaxSections == 2
MaxSectionRegs == 2

NoSource == 0

\* A value of the key "regulations": missing, null, or a list of records.
NoRegulations(kind) == [k |-> kind, items |-> <<>>]
RegulationList(n) ==
    [k |-> "list", items |-> [i \in 1..n |-> [regulation_id |-> i, source_section |-> NoSource]]]
RegulationValues ==
    {NoRegulations("absent"), NoRegulations("null")}
        \cup {RegulationList(n) : n \in 0..MaxSectionRegs}

\* The oracle call raised, or its text is no JSON object.
FailedReply ==
    [failed |-> TRUE, is_introductory |-> "none", contains_regulation |-> "none",
     regulations |-> NoRegulations("absent")]

\* The JSON objects the oracle may answer with; "none" is a missing key or null.
OracleReplies ==
    {FailedReply} \cup
    [failed : {FALSE}, is_introductory : {"true", "false"},
     contains_regulation : {"true", "false", "none"}, regulations : RegulationValues]

\* try: result = json.loads(...); result["section_title"] = section["title"]
\* except: the result with contains_regulation False, no regulations and "error"
extract_regulations_from_section(section, reply) ==
    IF reply.failed
    THEN [section_title |-> section.title, is_introductory |-> "none",
          contains_regulation |-> "false", regulations |-> RegulationList(0),
          error |-> "set"]
    ELSE [section_title |-> section.title, is_introductory |-> reply.is_introductory,
          contains_regulation |-> reply.contains_regulation,
          regulations |-> reply.regulations, error |-> "none"]

\* len(analysis.get("regulations", [])) raises TypeError for null
ProgressLineRaises(analysis) ==
    analysis.contains_regulation = "true" /\ analysis.regulations.k = "null"

\* The variant that reads no "contains_regulation".
HasRegulations_AnyFlag(res) ==
    /\ res.regulations.k = "list"
    /\ Len(res.regulations.items) > 0

\* result.get("contains_regulation") and result.get("regulations")
HasRegulations(res) ==
    /\ res.contains_regulation = "true"
    /\ res.regulations.k = "list"
    /\ Len(res.regulations.items) > 0

\* reg["source_section"] = result.get("section_title")
Stamped(res) ==
    [i \in DOMAIN res.regulations.items |->
        [res.regulations.items[i] EXCEPT !.source_section = res.section_title]]

RECURSIVE CollectFrom(_, _)
CollectFrom(res, i) ==
    IF i > Len(res) THEN <<>>
    ELSE (IF HasRegulations(res[i]) THEN Stamped(res[i]) ELSE <<>>)
         \o CollectFrom(res, i + 1)

collect_all_regulations(res) == CollectFrom(res, 1)

\* The results after collect_all_regulations has written "source_section"
\* into the records it returned.
ResultsAfterCollect(res) ==
    [i \in DOMAIN res |->
        IF HasRegulations(res[i])
        THEN [res[i] EXCEPT !.regulations.items = Stamped(res[i])]
        ELSE res[i]]

InitExtract ==
    /\ doc_sections \in {[i \in 1..n |-> [title |-> i]] : n \in 0..MaxSections}
    /\ rpem_verbose \in BOOLEAN
    /\ oracle_replies = <<>>
    /\ analysis_results = <<>>
    /\ all_regulations = <<>>
    /\ extract_pc = "processing"
    /\ IdleHistory
    /\ IdleSplit
    /\ IdleCall
    /\ IdleAll
    /\ IdleMerge
    /\ IdleScore

\* One iteration of `for i, section in enumerate(sections)`.
ProcessSection(reply) ==
    /\ extract_pc = "processing"
    /\ Len(analysis_results) < Len(doc_sections)
    /\ LET section == doc_sections[Len(analysis_results) + 1]
           analysis == extract_regulations_from_section(section, reply)
       IN  /\ oracle_replies' = Append(oracle_replies, reply)
           /\ analysis_results' = Append(analysis_results, analysis)
           /\ extract_pc' = IF rpem_verbose /\ ProgressLineRaises(analysis)
                            THEN "raised" ELSE "processing"
    /\ UNCHANGED <<doc_sections, rpem_verbose, all_regulations,
                   historyVars, splitVars, ccmVars, allVars, mergeVars, scoreVars>>

\* return results
ReturnAnalyses ==
    /\ extract_pc = "processing"
    /\ Len(analysis_results) = Len(doc_sections)
    /\ extract_pc' = "returned"
    /\ UNCHANGED <<doc_sections, rpem_verbose, oracle_replies, analysis_results,
                   all_regulations,
                   historyVars, splitVars, ccmVars, allVars, mergeVars, scoreVars>>

\* all_regulations = collect_all_regulations(results)
CollectAll ==
    /\ extract_pc = "returned"
    /\ all_regulations' = collect_all_regulations(analysis_results)
    /\ analysis_results' = ResultsAfterCollect(analysis_results)
    /\ extract_pc' = "collected"
    /\ UNCHANGED <<doc_sections, rpem_verbose, oracle_replies,
                   historyVars, splitVars, ccmVars, allVars, mergeVars, scoreVars>>

NextExtract ==
    \/ \E reply \in OracleReplies : ProcessSection(reply)
    \/ ReturnAnalyses
    \/ CollectAll

SpecExtract == InitExtract /\ [][NextExtract]_vars

----------------------------------------------------------------------------
(* The filter is run a second time over the same list, whose records now   *)
(* carry the "_quality_score" the first run attached to them.              *)

FilterAgain ==
    /\ filter_pc = "done"
    /\ filter_run = 1
    /\ filter_run' = 2
    /\ first_result' = [kept |-> kept, review |-> review, discarded |-> discarded]
    /\ kept' = <<>>
    /\ review' = <<>>
    /\ discarded' = <<>>
    /\ filter_pc' = "filtering"
    /\ UNCHANGED <<scorer, record, quality, previous, populated, score_pc,
                   reg_list, min_score, attached, ccmVars, allVars, mergeVars, restVars>>

NextRefilter ==
    \/ FilterRegulation
    \/ ReturnFiltered
    \/ FilterAgain

SpecRefilter == InitFilter /\ [][NextRefilter]_vars

----------------------------------------------------------------------------
(* Claims about one call of check_regulation_compliance (SpecCall).        *)

Returned == call_pc = "returned"
ObjectReply == Returned /\ response.kind = "object"

\* C1: for every oracle reply that parses as a JSON object with
\* contradiction_found = true, the returned compliance_status is
\* NON_COMPLIANT, whatever has_relevant_information, confidence_score and the
\* oracle's own compliance_status are.
C1_ContradictionForcesNonCompliant ==
    (ObjectReply /\ response.contradiction_found = JBool(TRUE))
        => result.compliance_status = "NON_COMPLIANT"

C1_Witness ==
    /\ ObjectReply
    /\ response.contradiction_found = JBool(TRUE)
    /\ response.has_relevant_information = JBool(FALSE)
    /\ response.confidence_score = JStr(1)
    /\ response.compliance_status = "COMPLIANT"
    /\ result.compliance_status = "NON_COMPLIANT"

C3_OracleStatusNotAuthoritative ==
    ObjectReply =>
        \A st \in OracleStatusValues :
            check_regulation_compliance(
                regulation, [response EXCEPT !.compliance_status = st]) = result

C3_Witness ==
    /\ ObjectReply
    /\ response.contradiction_found = Absent
    /\ response.has_relevant_information = JNull
    /\ response.confidence_score = JNum(50)
    /\ response.compliance_status = "COMPLIANT"
    /\ result.compliance_status = "HUMAN_REQUIRED"

\* The calls whose try block raises: the oracle call fails, the content is not
\* JSON or not a JSON object, or the confidence comparison meets a value that
\* is no number.
FailedCall ==
    /\ Returned
    /\ \/ response.kind \in FailureKinds
       \/ /\ response.kind = "object"
          /\ response.contradiction_found \in {JBool(FALSE), Absent, JStr(1)}
          /\ response.has_relevant_information \in {JBool(TRUE), Absent, JNull}
          /\ response.confidence_score \in {JNull, JStr(1)}

\* C4: check_regulation_compliance fails open: for a failed call it returns
\* compliance_status COMPLIANT, contradiction_found false, the regulation's
\* own regulation_id and regulation_name, an error field that is set, and the
\* error text embedded in explanation.
C4_FailOpen ==
    FailedCall =>
        /\ result.compliance_status = "COMPLIANT"
        /\ result.contradiction_found = JBool(FALSE)
        /\ regulation.regulation_id # Absent
              => result.regulation_id = regulation.regulation_id
        /\ regulation.regulation_name # Absent
              => result.regulation_name = regulation.regulation_name
        /\ result.error # ""
        /\ result.explanation = "Error during analysis: " \o result.error

C4_Witness ==
    /\ FailedCall
    /\ response.kind = "object"
    /\ response.compliance_status = "NON_COMPLIANT"
    /\ regulation.regulation_id = JStr(1)
    /\ result.regulation_id = JStr(1)
    /\ result.compliance_status = "COMPLIANT"
    /\ result.error = "'<' not supported"

----------------------------------------------------------------------------
(* Claims about check_all_regulations and the report (SpecAll).            *)

Returned_All == pc \in {"done", "reported"}
Reported == pc = "reported"

\* Number of results with a status in sts, counted on the result list itself.
NumWith(sts) ==
    Cardinality({i \in DOMAIN results : results[i].compliance_status \in sts})

StatusList == [i \in DOMAIN results |-> results[i].compliance_status]

\* C5: check_all_regulations returns exactly one result per input regulation,
\* in input order, and a failure while checking one regulation never prevents
\* the later ones from being checked: the run never ends in an exception, and
\* a failed check is in the list as a COMPLIANT result with the error noted.
C5_OneResultPerRegulation ==
    /\ pc # "raised"
    /\ Returned_All =>
          /\ Len(results) = Len(regulations)
          /\ Len(replies) = Len(regulations)
          /\ \A i \in DOMAIN results :
                /\ results[i] = check_regulation_compliance(regulations[i], replies[i])
                /\ replies[i].kind = "raise" =>
                      /\ results[i].compliance_status = "COMPLIANT"
                      /\ results[i].error # ""

\* C6: in every report, compliant + non_compliant + insufficient_info +
\* human_required = total, and total is the number of results.
C6_CountsSumToTotal ==
    Reported =>
        /\ report.summary.total = Len(results)
        /\ report.summary.compliant + report.summary.non_compliant
             + report.summary.insufficient_info + report.summary.human_required
           = report.summary.total

C6_Witness ==
    /\ Reported
    /\ report.summary.total = 3
    /\ report.summary.compliant = 1
    /\ report.summary.insufficient_info = 1
    /\ report.summary.human_required = 1

\* C7: compliance_rate (in tenths of a percent) is the tenth nearest to
\* compliant / (compliant + non_compliant) * 100, and 0 when no result is
\* COMPLIANT or NON_COMPLIANT; the other two statuses do not enter it.
C7_ComplianceRate ==
    Reported =>
        LET c == NumWith({"COMPLIANT"})
            d == NumWith({"COMPLIANT", "NON_COMPLIANT"})
            rate == report.summary.compliance_rate
            diff == rate * d - 1000 * c
        IN  /\ d = 0 => rate = 0
            /\ d > 0 => /\ 2 * diff <= d
                        /\ -2 * diff <= d

C7_Witness ==
    /\ Reported
    /\ StatusList = <<"COMPLIANT", "COMPLIANT", "NON_COMPLIANT">>
    /\ report.summary.compliance_rate = 667

C7_WitnessNonDefinitive ==
    /\ Reported
    /\ StatusList = <<"COMPLIANT", "HUMAN_REQUIRED", "INSUFFICIENT_INFORMATION">>
    /\ report.summary.compliance_rate = 1000

\* C8: overall_status is the non-compliant level iff some result is
\* NON_COMPLIANT; otherwise the review-required level iff some result is
\* INSUFFICIENT_INFORMATION or HUMAN_REQUIRED; otherwise the fully compliant
\* level, which is thus reported only when every result is COMPLIANT.
C8_OverallStatus ==
    Reported =>
        LET level == report.overall_status.level
            nc == NumWith({"NON_COMPLIANT"})
            rv == NumWith({"INSUFFICIENT_INFORMATION", "HUMAN_REQUIRED"})
        IN  /\ level = "NON_COMPLIANT" <=> nc > 0
            /\ level = "REVIEW_REQUIRED" <=> (nc = 0 /\ rv > 0)
            /\ level = "COMPLIANT" <=> (nc = 0 /\ rv = 0)
            /\ level = "COMPLIANT" =>
                  \A i \in DOMAIN results : results[i].compliance_status = "COMPLIANT"

C8_Witness ==
    /\ Reported
    /\ StatusList = <<"COMPLIANT", "HUMAN_REQUIRED", "COMPLIANT">>
    /\ report.overall_status.level = "REVIEW_REQUIRED"

----------------------------------------------------------------------------
(* Claims about deduplication (SpecMerge).                                 *)

MergeDone == merge_pc = "done"

\* Positions (0-based) of the input list whose record is not in the cleaned list.
RemovedIndices ==
    {i \in 0..(Len(records) - 1) :
        \A j \in DOMAIN cleaned_regulations : cleaned_regulations[j] # records[i + 1]}

\* The `index` values of the summaries shown to the oracle in the batch
\* that starts at start.
ShownIndices(start) ==
    {i \in start..(start + batch_size - 1) : i < Len(records)}

\* The oracle named both records of every pair by the `index` shown for them.
DesignatedByShownIndex ==
    \A b \in DOMAIN oracle_log :
        /\ oracle_log[b].kind = "object"
        /\ \A k \in DOMAIN oracle_log[b].pairs :
              LET p == oracle_log[b].pairs[k]
              IN  /\ p.has_reason
                  /\ p.delete_index.t = "int"
                  /\ p.keep_index.t = "int"
                  /\ p.delete_index.v \in ShownIndices(oracle_log[b].batch_start)
                  /\ p.keep_index.v \in ShownIndices(oracle_log[b].batch_start)
                  /\ p.delete_index.v # p.keep_index.v

\* The index values the oracle wrote as delete_index, over all batches.
DesignatedForDeletion ==
    UNION {{oracle_log[b].pairs[k].delete_index.v : k \in DOMAIN oracle_log[b].pairs} :
              b \in DOMAIN oracle_log}

\* C9: in the summary of deduplicate_regulations, for every input list and
\* every oracle behaviour, cleaned_count + duplicates_removed = original_count.
C9_SummaryCountsAddUp ==
    (MergeDone /\ entry = "deduplicate") =>
        summary.cleaned_count + summary.duplicates_removed = summary.original_count

\* C10: the indices recorded for a pair are positions in the original full
\* list for every batch: when the oracle names the records of its pairs by
\* the `index` values shown to it, the records removed from the cleaned list
\* are exactly the ones it designated for deletion.
C10_DesignatedRecordIsRemoved ==
    (MergeDone /\ DesignatedByShownIndex) =>
        RemovedIndices = DesignatedForDeletion

\* The recorded pairs (after the batch offset) with integer indices.
RecordedPairs ==
    {all_deletions[i] : i \in {j \in DOMAIN all_deletions :
        /\ all_deletions[j].delete_index.t = "int"
        /\ all_deletions[j].keep_index.t = "int"}}

\* The recorded delete_index values, whatever the other index of the pair.
RecordedDeleteIndices ==
    {all_deletions[i].delete_index.v : i \in {j \in DOMAIN all_deletions :
        all_deletions[j].delete_index.t = "int"}}

\* The delete_index values of the recorded pairs whose two indices are both
\* below the length of the list.
AcceptedDeleteIndices ==
    {p.delete_index.v : p \in {q \in RecordedPairs :
        /\ q.delete_index.v < Len(records)
        /\ q.keep_index.v < Len(records)}}

\* The cleaned list keeps the order of the input (whose records are 1..n).
InOriginalOrder ==
    \A i, j \in DOMAIN cleaned_regulations :
        i < j => cleaned_regulations[i] < cleaned_regulations[j]

\* C11 as stated: the cleaned list is exactly the input records whose
\* absolute index is not among the delete_index values of all recorded
\* pairs, in original order.
C11_Original ==
    MergeDone =>
        /\ RemovedIndices = RecordedDeleteIndices \cap (0..(Len(records) - 1))
        /\ InOriginalOrder

\* C11 (amended): the cleaned list is exactly the input records whose
\* absolute index is not among the delete_index values of the recorded pairs
\* whose delete_index and keep_index are both below the length of the list,
\* in original order; nominating an index several times, or naming it as
\* keep_index elsewhere, changes nothing.
C11_CleanedIsComplementOfAcceptedDeletes ==
    MergeDone =>
        /\ RemovedIndices = AcceptedDeleteIndices \cap (0..(Len(records) - 1))
        /\ InOriginalOrder

\* Record 0 is nominated by two pairs with different partners, record 1 is
\* both kept by one pair and nothing else, and one record is gone.
C11_Witness ==
    /\ MergeDone
    /\ Len(all_deletions) = 2
    /\ all_deletions[1] = Pair(JInt(0), JInt(1), TRUE)
    /\ all_deletions[2] = Pair(JInt(0), JInt(2), TRUE)
    /\ cleaned_regulations = Tail(records)

\* Batch b of the log failed: the call or the parse raised, or reading one
\* of its pairs raised.
BatchFailed(b) ==
    \/ oracle_log[b].kind = "raise"
    \/ \E k \in DOMAIN oracle_log[b].pairs :
          PairRaises(oracle_log[b].pairs[k], oracle_log[b].batch_start)

\* The number of pairs reported by the batches that did not fail.
RECURSIVE PairsOfGoodBatches(_)
PairsOfGoodBatches(b) ==
    IF b = 0 THEN 0
    ELSE PairsOfGoodBatches(b - 1)
         + (IF BatchFailed(b) THEN 0 ELSE Len(oracle_log[b].pairs))

\* C12: a batch whose processing fails (oracle call error, unparseable
\* reply, or an error raised while reading its pairs) contributes no
\* deletion: the recorded pairs are those of the other batches only.
C12_FailedBatchContributesNothing ==
    Len(all_deletions) = PairsOfGoodBatches(Len(oracle_log))

\* C13: merge_duplicate_regulations never propagates an exception caused by
\* the reply of the oracle: once a reply has been received the call does not
\* end by raising.
C13_NoExceptionFromReply ==
    (entry = "merge" /\ oracle_log # <<>>) => merge_pc # "raised"

\* The position that regulations[x] reads (a negative x counts from the end).
PositionRead(x) == IF x < 0 THEN x + Len(records) ELSE x

\* The logged pairs link positions i and j, in one step.
Linked(i, j) ==
    \E k \in DOMAIN deletion_log :
        LET d == PositionRead(deletion_log[k].deleted_index)
            kp == PositionRead(deletion_log[k].kept_index)
        IN  (d = i /\ kp = j) \/ (d = j /\ kp = i)

\* The positions connected to i by logged pairs, in at most k steps.
RECURSIVE GroupWithin(_, _)
GroupWithin(i, k) ==
    IF k = 0 THEN {i}
    ELSE LET g == GroupWithin(i, k - 1)
         IN  g \cup {j \in 0..(Len(records) - 1) : \E h \in g : Linked(h, j)}

DuplicateGroup(i) == GroupWithin(i, Len(records))

\* C15: for every set of records connected by reported pairs, at least one
\* member remains in the cleaned list.
C15_GroupKeepsAMember ==
    MergeDone =>
        \A i \in 0..(Len(records) - 1) :
            \E j \in DuplicateGroup(i) : j \notin RemovedIndices

\* C14: against an oracle that reports the same pairs for the same two
\* records, a second run over the cleaned list of the first, with the same
\* batch_size, removes no further record.
C14_SecondRunRemovesNothing ==
    (run = 2 /\ MergeDone) => cleaned_regulations = records

----------------------------------------------------------------------------
(* Claims about quality scoring (SpecScore, SpecPopulate) and filtering    *)
(* (SpecFilter).  Returned scores are in tenths of a point.                *)

Scored == score_pc = "scored"

\* C16: the score of both entry points lies in [0, 100].
C16_ScoreInRange ==
    Scored => (quality.score >= 0 /\ quality.score <= 1000)

\* filter_regulations_funcs scored a record whose tiers earned points and
\* whose null ratio took all of them away: the floor at 0 acted.
C16_Witness ==
    /\ Scored
    /\ scorer = "filter_funcs"
    /\ FF_TierScore(record) > 0
    /\ RatioAbove(record, 7)
    /\ quality.score = 0

\* C17: for both entry points the score does not decrease when a blank field
\* or sub-field is replaced by a non-blank value, everything else fixed.
C17_ScoreMonotone ==
    (Scored /\ populated) => quality.score >= previous.score

\* Every field of the template is present with a value that is neither
\* blank nor a sentinel, and so is every member of a mapping or a list;
\* False and numbers (0 included) are such values.
FullyPopulated(r) ==
    \A f \in TemplateFields :
        \/ r[f].k \in {"text", "true", "false", "zero", "number"}
        \/ /\ r[f].k \in {"dict", "list"}
           /\ Size(r[f]) > 0
           /\ r[f].blank = 0
           /\ r[f].sentinel = 0

\* C18: a record with all template fields and sub-fields populated with
\* non-sentinel values (False and numbers included) scores at least 70 and
\* gets KEEP, under both entry points.
C18_FullRecordIsKept ==
    (Scored /\ FullyPopulated(record)) =>
        (quality.score >= 10 * KeepScore /\ quality.recommendation = "KEEP")

\* C19: in every assessment the recommendation agrees with the returned
\* score: KEEP iff score >= 70, REVIEW iff 40 <= score < 70, DISCARD iff
\* score < 40.
C19_RecommendationMatchesScore ==
    Scored =>
        /\ quality.recommendation = "KEEP" <=> quality.score >= 10 * KeepScore
        /\ quality.recommendation = "REVIEW" <=>
              (quality.score >= 10 * ReviewScore /\ quality.score < 10 * KeepScore)
        /\ quality.recommendation = "DISCARD" <=> quality.score < 10 * ReviewScore

\* C20: for every min_score in 0..100 no record whose score is below
\* min_score is in `kept` or `review`: all of them are in `discarded`.
C20_NothingBelowMinScoreIsKept ==
    /\ \A i \in DOMAIN kept : kept[i]._quality_score.score >= 10 * min_score
    /\ \A i \in DOMAIN review : review[i]._quality_score.score >= 10 * min_score

\* A scalar value of a field that is present, and the blank sentinels
\* among them: null, "", "N/A", "Unknown".
IsScalar(v) == v.k \notin {"absent", "dict", "list"}
IsSentinel(v) == v.k \in {"none", "empty", "na", "unknown"}

\* C27: a top-level scalar field holding a blank sentinel earns zero points
\* in every tier of both entry points, and any other scalar value earns the
\* full points of the field.
C27_ScalarFieldPoints ==
    Scored =>
        \A f \in TemplateFields :
            IsScalar(record[f]) =>
                FieldPoints(scorer, f, record[f]) =
                    (IF IsSentinel(record[f]) THEN 0 ELSE FullPoints(f))

\* C29: for every record the score of
\* filter_regulations_funcs.calculate_regulation_quality_score is at most the
\* score of RPEM.calculate_quality_score, so a record it recommends KEEP is
\* KEEP under RPEM as well.
C29_PenalisedVariantIsStricter ==
    Scored =>
        /\ calculate_regulation_quality_score(record).score
              <= calculate_quality_score(record).score
        /\ calculate_regulation_quality_score(record).recommendation = "KEEP"
              => calculate_quality_score(record).recommendation = "KEEP"

\* C28: scoring a record again after "_quality_score" has been attached
\* gives the same score and recommendation, so a second run of the filter
\* over the same records returns the same three lists as the first.
C28_SecondFilterRunAgrees ==
    (filter_run = 2 /\ filter_pc = "done") =>
        /\ kept = first_result.kept
        /\ review = first_result.review
        /\ discarded = first_result.discarded

\* C30: after any sequence of add_to_history, delete_history_item and
\* clear_history no two entries of the history share an id, and the history
\* never holds more than 50 entries.
C30_HistoryIdsUniqueAndCapped ==
    /\ \A i, j \in DOMAIN history : i # j => history[i] # history[j]
    /\ Len(history) <= MaxHistory

\* The positions at which a header line begins: a "#" that opens a line.
HeaderLines(t) == {i \in 1..Len(t) : t[i] = "#" /\ (i = 1 \/ t[i - 1] = "\n")}

FirstHeader(t) == CHOOSE h \in HeaderLines(t) : \A g \in HeaderLines(t) : h <= g

\* Where the header line that follows position i begins, or the position
\* after the text.
NextHeader(t, i) ==
    IF \E h \in HeaderLines(t) : h > i
    THEN CHOOSE h \in HeaderLines(t) : h > i /\ \A g \in HeaderLines(t) : g > i => h <= g
    ELSE Len(t) + 1

\* The positions at which the parts that open a section begin.
RECURSIVE MatchStarts(_, _)
MatchStarts(t, i) ==
    IF i > Len(t) THEN {}
    ELSE IF MatchAt(t, i) THEN {i} \cup MatchStarts(t, MatchEnd(t, i))
    ELSE MatchStarts(t, i + 1)

SectionStarts(t) == MatchStarts(t, 1) \cup {i \in {1} : StartsWithHash(t)}

\* C24: no text before the first header line reaches a section: a text
\* without header lines yields no section, and no section begins before
\* the first header line.
C24_TextBeforeFirstHeaderIsDiscarded ==
    split_pc = "done" =>
        /\ HeaderLines(markdown_text) = {} => sections = <<>>
        /\ \A i \in SectionStarts(markdown_text) :
               \E h \in HeaderLines(markdown_text) : h <= i

\* One section per header line from the header line at i on: the line
\* trimmed as title, the text up to the next header line trimmed as content.
RECURSIVE SectionsFromHeader(_, _)
SectionsFromHeader(t, i) ==
    IF i > Len(t) THEN <<>>
    ELSE <<[title |-> Strip(SubSeq(t, i, LineEnd(t, i) - 1)),
            content |-> Strip(SubSeq(t, LineEnd(t, i), NextHeader(t, i) - 1))]>>
         \o SectionsFromHeader(t, NextHeader(t, i))

\* C25: the sections are, in document order, one per header line, with the
\* header line trimmed as title and all text up to the next header line
\* trimmed as content.
C25_OneSectionPerHeaderLine ==
    split_pc = "done" =>
        sections = (IF HeaderLines(markdown_text) = {} THEN <<>>
                    ELSE SectionsFromHeader(markdown_text, FirstHeader(markdown_text)))

\* C26: a section starts only where a line begins with "#", and every
\* title is one header line.
C26_SectionsStartAtHeaderLines ==
    split_pc = "done" =>
        /\ SectionStarts(markdown_text) \subseteq HeaderLines(markdown_text)
        /\ \A k \in DOMAIN sections :
               \E h \in HeaderLines(markdown_text) :
                   sections[k].title =
                       Strip(SubSeq(markdown_text, h, LineEnd(markdown_text, h) - 1))

Introductory(i) == oracle_replies[i].is_introductory = "true"

\* C21: a section the oracle classifies as introductory has a result with
\* an empty `regulations` list, and collect_all_regulations returns none of
\* its records.
C21_IntroductorySectionYieldsNothing ==
    extract_pc \in {"returned", "collected"} =>
        \A i \in DOMAIN analysis_results : Introductory(i) =>
            /\ analysis_results[i].regulations = RegulationList(0)
            /\ \A k \in DOMAIN all_regulations :
                   all_regulations[k].source_section # analysis_results[i].section_title

\* C22: process_all_sections returns one result per section, in section
\* order; a section whose oracle call failed has the result with
\* contains_regulation false, no regulations and an error, and the other
\* sections have the results of their own replies.
C22_OneResultPerSection ==
    /\ extract_pc # "raised"
    /\ extract_pc = "returned" =>
           /\ Len(analysis_results) = Len(doc_sections)
           /\ \A i \in DOMAIN analysis_results :
                  /\ analysis_results[i].section_title = doc_sections[i].title
                  /\ IF oracle_replies[i].failed
                     THEN /\ analysis_results[i].contains_regulation = "false"
                          /\ analysis_results[i].regulations = RegulationList(0)
                          /\ analysis_results[i].error = "set"
                     ELSE /\ analysis_results[i].contains_regulation
                                 = oracle_replies[i].contains_regulation
                          /\ analysis_results[i].regulations = oracle_replies[i].regulations
                          /\ analysis_results[i].error = "none"

\* The records of the results from result i on whose contains_regulation
\* is true, each with the title of its section as source_section.
RECURSIVE RecordsOfFlagged(_, _)
RecordsOfFlagged(answers, i) ==
    IF i > Len(answers) THEN <<>>
    ELSE (IF ~answers[i].failed /\ answers[i].contains_regulation = "true"
          THEN [k \in DOMAIN answers[i].regulations.items |->
                   [regulation_id |-> answers[i].regulations.items[k].regulation_id,
                    source_section |-> doc_sections[i].title]]
          ELSE <<>>)
         \o RecordsOfFlagged(answers, i + 1)

\* C23: collect_all_regulations returns, in section order and then in the
\* order of each list, exactly the records of the results with
\* contains_regulation = true, each with the title of its section as
\* source_section.
C23_CollectsRecordsOfFlaggedResults ==
    extract_pc = "collected" => all_regulations = RecordsOfFlagged(oracle_replies, 1)

\* Two sections with records are collected and a section with
\* contains_regulation false and a non-empty list is left out.
C23_Witness ==
    /\ extract_pc = "collected"
    /\ Len(all_regulations) >= 2
    /\ \E i, j \in DOMAIN analysis_results :
           /\ HasRegulations(analysis_results[i])
           /\ analysis_results[j].contains_regulation = "false"
           /\ Len(analysis_results[j].regulations.items) > 0

====
